---- MODULE Spec2Model ----
(***************************************************************************)
(* Model of the login endpoint POST /api/login:                            *)
(*   route handler        app/api/login/route.ts     (src/unnamed/part_000) *)
(*   ResponseUtils        lib/utils/responseUtils.ts (src/unnamed/part_001) *)
(*   AuthService          lib/services/authService.ts(src/unnamed/part_001) *)
(*   AuthValidation       src/src/lib/validation/authValidation.ts          *)
(*                                                                         *)
(* A JavaScript string is a sequence of one-character strings, so that     *)
(* trim, toLowerCase, length and the email pattern are computed character  *)
(* by character.  A JSON value is a record with one payload field per      *)
(* kind; the payload fields of the other kinds hold a fixed default.       *)
(***************************************************************************)
EXTENDS Integers, Sequences, FiniteSets, TLC

VARIABLES
    pc,                   \* position of the POST invocation
    request,              \* the incoming Request: what request.json() will do
    body,                 \* const body (route.ts line 13)
    validationErrors,     \* const validationErrors (route.ts line 18)
    sanitizedCredentials, \* const sanitizedCredentials (route.ts line 27)
    authResult,           \* const authResult (route.ts line 32)
    response,             \* the NextResponse the invocation returned
    error,                \* the exception caught at route.ts line 42
    calls,                \* the functions invoked so far, in order
    unit,                 \* a direct call of an AuthValidation function
    invocations,          \* the locals of each of the concurrent POST invocations
    reference,            \* AuthService.VALID_CREDENTIALS, the static object
    timers                \* the labels console.time has started and not ended

\* the locals of the single invocation, and the state invocations share
single == <<pc, request, body, validationErrors, sanitizedCredentials,
            authResult, response, error, calls, unit>>

shared == <<invocations, reference, timers>>

vars == <<single, shared>>

(***************************************************************************)
(* Bounds of the explored inputs.                                          *)
(***************************************************************************)
MaxEmailLen == 5      \* emails enumerated over EmailAlphabet up to this length
MaxPasswordLen == 7   \* passwords enumerated over PasswordAlphabet
MaxCasePos == 3       \* leading letters of the fixed email that vary in case
MaxRawLen == 3        \* raw strings enumerated for direct sanitizeCredentials calls
MaxInvocations == 2   \* POST invocations that are in flight together

(***************************************************************************)
(* JavaScript strings.                                                     *)
(***************************************************************************)
WhiteSpace == {" ", "\t", "\n"}

Uppers == <<"A","B","C","D","E","F","G","H","I","J","K","L","M",
            "N","O","P","Q","R","S","T","U","V","W","X","Y","Z">>

Lowers == <<"a","b","c","d","e","f","g","h","i","j","k","l","m",
            "n","o","p","q","r","s","t","u","v","w","x","y","z">>

Digits == <<"0","1","2","3","4","5","6","7","8","9">>

IsUpper(c) == \E i \in DOMAIN Uppers : Uppers[i] = c

IsLower(c) == \E i \in DOMAIN Lowers : Lowers[i] = c

ToLowerChar(c) ==
    IF IsUpper(c) THEN Lowers[CHOOSE i \in DOMAIN Uppers : Uppers[i] = c] ELSE c

ToUpperChar(c) ==
    IF IsLower(c) THEN Uppers[CHOOSE i \in DOMAIN Lowers : Lowers[i] = c] ELSE c

\* String.prototype.toLowerCase
toLowerCase(s) == [i \in 1..Len(s) |-> ToLowerChar(s[i])]

RECURSIVE TrimStart(_)
TrimStart(s) ==
    IF Len(s) > 0 /\ s[1] \in WhiteSpace THEN TrimStart(Tail(s)) ELSE s

RECURSIVE TrimEnd(_)
TrimEnd(s) ==
    IF Len(s) > 0 /\ s[Len(s)] \in WhiteSpace
    THEN TrimEnd(SubSeq(s, 1, Len(s) - 1))
    ELSE s

\* A trim that strips at most one white-space character from each end.
trimOneEach(s) ==
    LET t == IF Len(s) > 0 /\ s[1] \in WhiteSpace THEN Tail(s) ELSE s
    IN  IF Len(t) > 0 /\ t[Len(t)] \in WhiteSpace
        THEN SubSeq(t, 1, Len(t) - 1)
        ELSE t

\* String.prototype.trim
trim(s) == TrimEnd(TrimStart(s))

RECURSIVE DecimalString(_)
DecimalString(n) ==
    IF n < 10
    THEN <<Digits[n + 1]>>
    ELSE DecimalString(n \div 10) \o <<Digits[(n % 10) + 1]>>

RECURSIVE Join(_)
Join(a) ==
    IF Len(a) = 0 THEN <<>>
    ELSE IF Len(a) = 1 THEN a[1]
    ELSE a[1] \o <<",">> \o Join(Tail(a))

(***************************************************************************)
(* JSON values, as JSON.parse produces them.  An object is either plain or *)
(* has an own "toString" property, which no JSON value can make callable.  *)
(***************************************************************************)
JVal(k, b, n, s, a) == [k |-> k, bool |-> b, num |-> n, str |-> s, arr |-> a]

JUndef == JVal("undefined", FALSE, 0, <<>>, <<>>)
JNull == JVal("null", FALSE, 0, <<>>, <<>>)
JBool(b) == JVal("boolean", b, 0, <<>>, <<>>)
JNum(n) == JVal("number", FALSE, n, <<>>, <<>>)
JStr(s) == JVal("string", FALSE, 0, s, <<>>)
JArr(a) == JVal("array", FALSE, 0, <<>>, a)
JObj(shadowsToString) == JVal("object", shadowsToString, 0, <<>>, <<>>)

\* ToBoolean
Truthy(v) ==
    CASE v.k = "undefined" -> FALSE
      [] v.k = "null" -> FALSE
      [] v.k = "boolean" -> v.bool
      [] v.k = "number" -> v.num # 0
      [] v.k = "string" -> Len(v.str) > 0
      [] OTHER -> TRUE

\* the typeof operator
TypeOf(v) ==
    CASE v.k = "null" -> "object"
      [] v.k = "array" -> "object"
      [] OTHER -> v.k

\* ToString(v) throws a TypeError when neither toString nor valueOf yields a primitive
ToStringThrows(v) == v.k = "object" /\ v.bool

\* ToString(v) where it does not throw
JSToString(v) ==
    CASE v.k = "string" -> v.str
      [] v.k = "number" -> DecimalString(v.num)
      [] v.k = "boolean" ->
            IF v.bool THEN <<"t","r","u","e">> ELSE <<"f","a","l","s","e">>
      [] v.k = "null" -> <<"n","u","l","l">>
      [] v.k = "undefined" -> <<"u","n","d","e","f","i","n","e","d">>
      [] v.k = "array" -> Join(v.arr)
      [] OTHER -> <<"[","o","b","j","e","c","t"," ","O","b","j","e","c","t","]">>

\* whether v.length is a number (it is undefined on numbers, booleans and
\* objects without a "length" property)
HasLength(v) == v.k \in {"string", "array"}

\* v.length where it is a number
LengthOf(v) == IF v.k = "string" THEN Len(v.str) ELSE Len(v.arr)

\* v === s for a string constant s
StrictEqualsString(v, s) == v.k = "string" /\ v.str = s

(***************************************************************************)
(* A parsed request body: its own value, and its "email" and "password"    *)
(* properties (JUndef where the property is absent).                       *)
(***************************************************************************)
BodyOf(v, e, p) == [val |-> v, email |-> e, password |-> p]

ObjectBody(e, p) == BodyOf(JObj(FALSE), e, p)

PlainBody(v) == BodyOf(v, JUndef, JUndef)

NoBody == PlainBody(JUndef)
(***************************************************************************)
(* AuthValidation (authValidation.ts).                                     *)
(***************************************************************************)
MIN_PASSWORD_LENGTH == 6

\* [^\s@]
NotSpaceNorAt(c) == c \notin WhiteSpace /\ c # "@"

\* The pattern with the dot excluded from the two domain classes,
\* /^[^\s@]+@[^\s@.]+\.[^\s@.]+$/ (positions as in RegexStep).
RegexStepStrictDomain(q, c) ==
    CASE q = 0 -> IF NotSpaceNorAt(c) THEN {1} ELSE {}
      [] q = 1 -> IF NotSpaceNorAt(c) THEN {1} ELSE IF c = "@" THEN {2} ELSE {}
      [] q = 2 -> IF NotSpaceNorAt(c) /\ c # "." THEN {3} ELSE {}
      [] q = 3 -> IF c = "." THEN {4} ELSE IF NotSpaceNorAt(c) THEN {3} ELSE {}
      [] q = 4 -> IF NotSpaceNorAt(c) /\ c # "." THEN {5} ELSE {}
      [] OTHER -> IF NotSpaceNorAt(c) /\ c # "." THEN {5} ELSE {}

\* /^[^\s@]+@[^\s@]+\.[^\s@]+$/ as an automaton over the positions of the
\* pattern: 0 at ^, 1 inside the first [^\s@]+, 2 after @, 3 inside the
\* second [^\s@]+, 4 after \., 5 inside the third [^\s@]+ (accepting at $).
RegexStep(q, c) ==
    CASE q = 0 -> IF NotSpaceNorAt(c) THEN {1} ELSE {}
      [] q = 1 -> IF NotSpaceNorAt(c) THEN {1} ELSE IF c = "@" THEN {2} ELSE {}
      [] q = 2 -> IF NotSpaceNorAt(c) THEN {3} ELSE {}
      [] q = 3 -> IF c = "." THEN {3, 4} ELSE IF NotSpaceNorAt(c) THEN {3} ELSE {}
      [] q = 4 -> IF NotSpaceNorAt(c) THEN {5} ELSE {}
      [] OTHER -> IF NotSpaceNorAt(c) THEN {5} ELSE {}

RECURSIVE RegexRun(_, _)
RegexRun(Q, s) ==
    IF Len(s) = 0
    THEN Q
    ELSE RegexRun(UNION {RegexStep(q, Head(s)) : q \in Q}, Tail(s))

\* EMAIL_REGEX.test(s) for a string s
EMAIL_REGEX_test(s) == 5 \in RegexRun({0}, s)

Returned(errors) == [threw |-> FALSE, errors |-> errors]

Thrown == [threw |-> TRUE, errors |-> <<>>]

ValidationError(f, m) == [field |-> f, message |-> m]

\* The email rule applied to the trimmed email.
emailErrorsTrimmed(email) ==
    IF ~Truthy(email)
    THEN <<ValidationError("email", "Email is required.")>>
    ELSE IF ~EMAIL_REGEX_test(trim(JSToString(email)))
    THEN <<ValidationError("email", "Invalid email format.")>>
    ELSE <<>>

\* the email rule (lines 26-30): the errors it pushes
emailErrors(email) ==
    IF ~Truthy(email)
    THEN <<ValidationError("email", "Email is required.")>>
    ELSE IF ~EMAIL_REGEX_test(JSToString(email))
    THEN <<ValidationError("email", "Invalid email format.")>>
    ELSE <<>>

\* The password rule with <= in place of <.
passwordErrorsOffByOne(password) ==
    IF ~Truthy(password)
    THEN <<ValidationError("password", "Password is required.")>>
    ELSE IF HasLength(password) /\ LengthOf(password) <= MIN_PASSWORD_LENGTH
    THEN <<ValidationError("password",
            "Password must be at least " \o ToString(MIN_PASSWORD_LENGTH)
                \o " characters.")>>
    ELSE <<>>

\* the password rule (lines 33-40): the errors it pushes; undefined < 6 is false
passwordErrors(password) ==
    IF ~Truthy(password)
    THEN <<ValidationError("password", "Password is required.")>>
    ELSE IF HasLength(password) /\ LengthOf(password) < MIN_PASSWORD_LENGTH
    THEN <<ValidationError("password",
            "Password must be at least " \o ToString(MIN_PASSWORD_LENGTH)
                \o " characters.")>>
    ELSE <<>>

\* validateLoginCredentials with the password rule skipped once the email
\* rule has pushed an error.
validateShortCircuit(credentials) ==
    IF ~Truthy(credentials.val) \/ TypeOf(credentials.val) # "object"
    THEN Returned(<<ValidationError("general", "Invalid request body.")>>)
    ELSE IF Truthy(credentials.email) /\ ToStringThrows(credentials.email)
    THEN Thrown
    ELSE IF Len(emailErrors(credentials.email)) > 0
    THEN Returned(emailErrors(credentials.email))
    ELSE Returned(passwordErrors(credentials.password))

\* validateLoginCredentials with the email rule dropped.
validateNoEmailRule(credentials) ==
    IF ~Truthy(credentials.val) \/ TypeOf(credentials.val) # "object"
    THEN Returned(<<ValidationError("general", "Invalid request body.")>>)
    ELSE Returned(passwordErrors(credentials.password))

\* AuthValidation.validateLoginCredentials: the list it returns, or the
\* TypeError of EMAIL_REGEX.test(email) converting email to a string
validateLoginCredentials(credentials) ==
    IF ~Truthy(credentials.val) \/ TypeOf(credentials.val) # "object"
    THEN Returned(<<ValidationError("general", "Invalid request body.")>>)
    ELSE LET email == credentials.email
             password == credentials.password
             errors0 == <<>>
         IN  IF Truthy(email) /\ ToStringThrows(email)
             THEN Thrown
             ELSE LET errors1 == errors0 \o emailErrors(email)
                      errors2 == errors1 \o passwordErrors(password)
                  IN  Returned(errors2)

Credentials(e, p) == [email |-> e, password |-> p]

NoCredentials == Credentials(JUndef, JUndef)

Sanitized(c) == [threw |-> FALSE, value |-> c]

SanitizeThrown == [threw |-> TRUE, value |-> NoCredentials]

\* credentials.email?.trim().toLowerCase() || '' throws a TypeError when
\* email is neither null, undefined nor a string: it has no trim method
sanitizeEmailThrows(email) == email.k \notin {"undefined", "null", "string"}

\* credentials.email?.trim().toLowerCase() || ''
sanitizeEmail(email) ==
    IF email.k = "string" THEN JStr(toLowerCase(trim(email.str))) ELSE JStr(<<>>)

\* The password trimmed like the email.
sanitizePasswordTrimmed(password) ==
    IF password.k = "string" THEN JStr(trim(password.str)) ELSE JStr(<<>>)

\* credentials.password || ''
sanitizePassword(password) ==
    IF Truthy(password) THEN password ELSE JStr(<<>>)

\* sanitizeCredentials without the toLowerCase call.
sanitizeNoLowerCase(credentials) ==
    IF credentials.val.k \in {"undefined", "null"}
          \/ sanitizeEmailThrows(credentials.email)
    THEN SanitizeThrown
    ELSE Sanitized(Credentials(
            IF credentials.email.k = "string"
            THEN JStr(trim(credentials.email.str)) ELSE JStr(<<>>),
            sanitizePassword(credentials.password)))

\* AuthValidation.sanitizeCredentials
sanitizeCredentials(credentials) ==
    IF credentials.val.k \in {"undefined", "null"}
          \/ sanitizeEmailThrows(credentials.email)
    THEN SanitizeThrown
    ELSE Sanitized(Credentials(sanitizeEmail(credentials.email),
                               sanitizePassword(credentials.password)))

(***************************************************************************)
(* AuthService (authService.ts).                                           *)
(***************************************************************************)
VALID_CREDENTIALS ==
    [email |-> <<"t","e","s","t","@","e","x","a","m","p","l","e",".","c","o","m">>,
     password |-> <<"p","a","s","s","w","o","r","d","1","2","3">>]

\* authenticateUser answering a mismatch with 400.
compareMismatch400(credentials) ==
    IF StrictEqualsString(credentials.email, VALID_CREDENTIALS.email)
          /\ StrictEqualsString(credentials.password, VALID_CREDENTIALS.password)
    THEN [success |-> TRUE, message |-> "Login successful!", statusCode |-> 200,
          data |-> [user |-> [email |-> credentials.email.str,
                              id |-> "user-123", role |-> "user"]]]
    ELSE [success |-> FALSE, message |-> "Invalid credentials.", statusCode |-> 400]

\* AuthService.authenticateUser after the delay (lines 63-84): the AuthResult
compareCredentials(credentials) ==
    IF StrictEqualsString(credentials.email, VALID_CREDENTIALS.email)
          /\ StrictEqualsString(credentials.password, VALID_CREDENTIALS.password)
    THEN [success |-> TRUE, message |-> "Login successful!", statusCode |-> 200,
          data |-> [user |-> [email |-> credentials.email.str,
                              id |-> "user-123", role |-> "user"]]]
    ELSE [success |-> FALSE, message |-> "Invalid credentials.", statusCode |-> 401]

\* authenticateUser naming the field that was wrong.
compareRevealing(credentials, valid) ==
    IF StrictEqualsString(credentials.email, valid.email)
          /\ StrictEqualsString(credentials.password, valid.password)
    THEN [success |-> TRUE, message |-> "Login successful!", statusCode |-> 200,
          data |-> [user |-> [email |-> credentials.email.str,
                              id |-> "user-123", role |-> "user"]]]
    ELSE IF StrictEqualsString(credentials.email, valid.email)
    THEN [success |-> FALSE, message |-> "Invalid password.", statusCode |-> 401]
    ELSE [success |-> FALSE, message |-> "Invalid credentials.", statusCode |-> 401]

\* the same lines 63-84, reading the static object this.VALID_CREDENTIALS as
\* it is when the comparison runs
compareWith(credentials, valid) ==
    IF StrictEqualsString(credentials.email, valid.email)
          /\ StrictEqualsString(credentials.password, valid.password)
    THEN [success |-> TRUE, message |-> "Login successful!", statusCode |-> 200,
          data |-> [user |-> [email |-> credentials.email.str,
                              id |-> "user-123", role |-> "user"]]]
    ELSE [success |-> FALSE, message |-> "Invalid credentials.", statusCode |-> 401]

NoAuthResult == [pending |-> TRUE]

(***************************************************************************)
(* ResponseUtils (responseUtils.ts).  NextResponse.json(data, {status}) is *)
(* the pair of the status and the JSON body.                               *)
(***************************************************************************)
NextResponse_json(data, status) == [status |-> status, body |-> data]

\* createValidationErrorResponse sending the first error only.
createValidationErrorResponseFirstOnly(errors) ==
    NextResponse_json([success |-> FALSE, message |-> "Validation failed",
                       errors |-> SubSeq(errors, 1, 1)], 400)

\* ResponseUtils.createValidationErrorResponse
createValidationErrorResponse(errors) ==
    NextResponse_json([success |-> FALSE, message |-> "Validation failed",
                       errors |-> errors], 400)

\* createAuthResponse without the data spread.
createAuthResponseNoData(result) ==
    NextResponse_json([success |-> result.success, message |-> result.message],
                      result.statusCode)

\* ResponseUtils.createAuthResponse
createAuthResponse(result) ==
    NextResponse_json(
        IF "data" \in DOMAIN result
        THEN [success |-> result.success, message |-> result.message,
              data |-> result.data]
        ELSE [success |-> result.success, message |-> result.message],
        result.statusCode)

\* createServerErrorResponse with the exception's name in the message.
createServerErrorResponseLeaky ==
    NextResponse_json([success |-> FALSE,
                       message |-> "Internal server error: " \o error], 500)

\* ResponseUtils.createServerErrorResponse
createServerErrorResponse ==
    NextResponse_json([success |-> FALSE, message |-> "Internal server error"], 500)

NoResponse == [pending |-> TRUE]
(***************************************************************************)
(* The request bodies explored.                                            *)
(***************************************************************************)
Strings(alphabet, n) == UNION {[1..k -> alphabet] : k \in 0..n}

EmailAlphabet == {"a", "@", ".", " "}

PasswordAlphabet == {"1", "a"}

RawAlphabet == {"a", "A", " ", "\t"}

\* the fixed email with any of its first MaxCasePos letters in upper case
CaseVariants ==
    {[i \in 1..Len(VALID_CREDENTIALS.email) |->
        IF i \in U THEN ToUpperChar(VALID_CREDENTIALS.email[i])
                   ELSE VALID_CREDENTIALS.email[i]] : U \in SUBSET (1..MaxCasePos)}

SampleEmails ==
    { toLowerCase(<<"W","R","O","N","G">>) \o SubSeq(VALID_CREDENTIALS.email, 5, 16),
      <<"W","R","O","N","G","@","E">> \o SubSeq(VALID_CREDENTIALS.email, 7, 16),
      <<"T","E","S","T","@","E","X","A","M","P","L","E",".","C","O","M">>,
      <<" ">> \o VALID_CREDENTIALS.email,
      VALID_CREDENTIALS.email \o <<" ">>,
      <<"\t">> \o VALID_CREDENTIALS.email \o <<"\n">>,
      SubSeq(VALID_CREDENTIALS.email, 1, 4) \o <<" ">>
          \o SubSeq(VALID_CREDENTIALS.email, 5, 16),
      <<"i","n","v","a","l","i","d","-","e","m","a","i","l">>,
      <<"a","@","b",".",".","c">>,
      <<"a","@","b","\t",".","c">>,
      <<"a","@","b","@","c",".","d">>,
      <<"a",".","b","@","c",".","d",".","e">>,
      <<"A","@","B",".","C">> }

EmailStrings == Strings(EmailAlphabet, MaxEmailLen) \cup CaseVariants \cup SampleEmails

SamplePasswords ==
    { VALID_CREDENTIALS.password,
      <<"P">> \o Tail(VALID_CREDENTIALS.password),
      VALID_CREDENTIALS.password \o <<" ">>,
      <<"1","2","3">>,
      <<"1","2","3","4","5">>,
      <<"1","2","3","4","5","6">>,
      <<"w","r","o","n","g">> \o SubSeq(VALID_CREDENTIALS.password, 1, 8) }

PasswordStrings == Strings(PasswordAlphabet, MaxPasswordLen) \cup SamplePasswords

\* values of the other JSON kinds
OtherValues ==
    { JUndef, JNull, JBool(TRUE), JBool(FALSE), JNum(0), JNum(5), JNum(123456),
      JArr(<<>>), JArr(<<VALID_CREDENTIALS.email>>),
      JArr(<< <<"a","@","b">>, <<"c",".","d">> >>),
      JArr(<< <<"1">>, <<"2">>, <<"3">>, <<"4">>, <<"5">>, <<"6">> >>),
      JArr(<<VALID_CREDENTIALS.password>>),
      JObj(FALSE), JObj(TRUE) }

EmailValues == {JStr(s) : s \in EmailStrings} \cup OtherValues

PasswordValues == {JStr(s) : s \in PasswordStrings} \cup OtherValues

CoreEmailValues ==
    {JStr(s) : s \in CaseVariants \cup {<<"a","@","b",".",".","c">>,
                                        <<"i","n","v","a","l","i","d","-","e","m","a","i","l">>,
                                        <<" ">> \o VALID_CREDENTIALS.email}}
        \cup OtherValues

CorePasswordStrings ==
    {JStr(VALID_CREDENTIALS.password), JStr(<<"1","2","3">>),
     JStr(<<"1","2","3","4","5","6">>)}

\* bodies that are JSON objects: every email value with the core passwords
EmailSweepBodies ==
    {ObjectBody(e, p) : e \in EmailValues, p \in CorePasswordStrings}

\* and the core emails with every password value
PasswordSweepBodies ==
    {ObjectBody(e, p) : e \in CoreEmailValues, p \in PasswordValues}

\* bodies that are not JSON objects; an array has no email or password property
NonObjectBodies ==
    {PlainBody(v) : v \in {JNull, JBool(TRUE), JBool(FALSE), JNum(0), JNum(5),
                           JStr(<<>>), JStr(<<"a","b","c">>), JArr(<<>>),
                           JArr(<<VALID_CREDENTIALS.email>>)}}

\* request.json() resolves with the parsed body, or rejects with a SyntaxError
Parses(b) == [ok |-> TRUE, body |-> b]

Malformed == [ok |-> FALSE, body |-> NoBody]

NoUnit == [step |-> "none", arg |-> NoBody, once |-> SanitizeThrown,
           twice |-> SanitizeThrown]

(***************************************************************************)
(* POST (route.ts).  One invocation, cut at its await points and at the    *)
(* calls it makes.                                                         *)
(***************************************************************************)
\* the concurrent invocations, and the locals of one that has not been called
Invocations == 1..MaxInvocations

NoInvocation ==
    [pc |-> "idle", request |-> Malformed, validationErrors |-> <<>>,
     sanitizedCredentials |-> NoCredentials, authResult |-> NoAuthResult,
     response |-> NoResponse, error |-> "none"]

Init ==
    /\ pc = "idle"
    /\ request = Malformed
    /\ body = NoBody
    /\ validationErrors = <<>>
    /\ sanitizedCredentials = NoCredentials
    /\ authResult = NoAuthResult
    /\ response = NoResponse
    /\ error = "none"
    /\ calls = <<>>
    /\ unit = NoUnit
    /\ invocations = [i \in Invocations |-> NoInvocation]
    /\ reference = VALID_CREDENTIALS
    /\ timers = {}

\* line 6: the framework invokes POST(request)
Receive ==
    /\ pc = "idle"
    /\ \/ \E b \in EmailSweepBodies : request' = Parses(b)
       \/ \E b \in PasswordSweepBodies : request' = Parses(b)
       \/ \E b \in NonObjectBodies : request' = Parses(b)
       \/ request' = Malformed
    /\ pc' = "start"
    /\ calls' = Append(calls, "POST")
    /\ UNCHANGED <<body, validationErrors, sanitizedCredentials, authResult,
                   response, error, unit>>
    /\ UNCHANGED shared

\* line 13: const body = await request.json()
ParseBody ==
    /\ pc = "start"
    /\ calls' = Append(calls, "request.json")
    /\ IF request.ok
       THEN /\ body' = request.body
            /\ pc' = "parsed"
            /\ error' = error
       ELSE /\ body' = body
            /\ pc' = "caught"
            /\ error' = "SyntaxError"
    /\ UNCHANGED <<request, validationErrors, sanitizedCredentials, authResult,
                   response, unit>>
    /\ UNCHANGED shared

\* lines 18-25: validate; a non-empty list is answered at once
Validate ==
    /\ pc = "parsed"
    /\ calls' = Append(calls, "validateLoginCredentials")
    /\ LET r == validateLoginCredentials(body)
       IN  IF r.threw
           THEN /\ pc' = "caught"
                /\ error' = "TypeError"
                /\ UNCHANGED <<validationErrors, response>>
           ELSE /\ validationErrors' = r.errors
                /\ error' = error
                /\ IF Len(r.errors) > 0
                   THEN /\ response' = createValidationErrorResponse(r.errors)
                        /\ pc' = "responded"
                   ELSE /\ response' = response
                        /\ pc' = "validated"
    /\ UNCHANGED <<request, body, sanitizedCredentials, authResult, unit>>
    /\ UNCHANGED shared

\* line 27: const sanitizedCredentials = AuthValidation.sanitizeCredentials(body)
Sanitize ==
    /\ pc = "validated"
    /\ calls' = Append(calls, "sanitizeCredentials")
    /\ LET r == sanitizeCredentials(body)
       IN  IF r.threw
           THEN /\ pc' = "caught"
                /\ error' = "TypeError"
                /\ UNCHANGED sanitizedCredentials
           ELSE /\ sanitizedCredentials' = r.value
                /\ pc' = "sanitized"
                /\ error' = error
    /\ UNCHANGED <<request, body, validationErrors, authResult, response, unit>>
    /\ UNCHANGED shared

\* authenticateUser skipping the delay when the email is not the known one.
CallAuthenticateFastFail ==
    /\ pc = "sanitized"
    /\ IF StrictEqualsString(sanitizedCredentials.email, VALID_CREDENTIALS.email)
       THEN /\ calls' = calls \o <<"authenticateUser", "simulateDatabaseDelay">>
            /\ pc' = "delay"
       ELSE /\ calls' = Append(calls, "authenticateUser")
            /\ pc' = "compare"
    /\ UNCHANGED <<request, body, validationErrors, sanitizedCredentials,
                   authResult, response, error, unit>>
    /\ UNCHANGED shared

\* line 32 and authService.ts line 61: authenticateUser is called and
\* suspends on simulateDatabaseDelay
CallAuthenticate ==
    /\ pc = "sanitized"
    /\ calls' = calls \o <<"authenticateUser", "simulateDatabaseDelay">>
    /\ pc' = "delay"
    /\ UNCHANGED <<request, body, validationErrors, sanitizedCredentials,
                   authResult, response, error, unit>>
    /\ UNCHANGED shared

\* authService.ts line 89: the timer fires and the delay promise resolves
DelayElapsed ==
    /\ pc = "delay"
    /\ calls' = Append(calls, "setTimeout.resolve")
    /\ pc' = "compare"
    /\ UNCHANGED <<request, body, validationErrors, sanitizedCredentials,
                   authResult, response, error, unit>>
    /\ UNCHANGED shared

\* authService.ts lines 63-84: authenticateUser resolves with the AuthResult
Authenticate ==
    /\ pc = "compare"
    /\ authResult' = compareCredentials(sanitizedCredentials)
    /\ pc' = "authenticated"
    /\ UNCHANGED <<request, body, validationErrors, sanitizedCredentials,
                   response, error, calls, unit>>
    /\ UNCHANGED shared

\* line 40: return ResponseUtils.createAuthResponse(authResult)
Respond ==
    /\ pc = "authenticated"
    /\ calls' = Append(calls, "createAuthResponse")
    /\ response' = createAuthResponse(authResult)
    /\ pc' = "responded"
    /\ UNCHANGED <<request, body, validationErrors, sanitizedCredentials,
                   authResult, error, unit>>
    /\ UNCHANGED shared

\* The catch block running the request again once before it answers.
CatchErrorRetryOnce ==
    /\ pc = "caught"
    /\ IF \E k \in DOMAIN calls : calls[k] = "console.error"
       THEN /\ calls' = calls \o <<"console.error", "createServerErrorResponse">>
            /\ response' = createServerErrorResponse
            /\ pc' = "responded"
       ELSE /\ calls' = Append(calls, "console.error")
            /\ response' = response
            /\ pc' = "start"
    /\ UNCHANGED <<request, body, validationErrors, sanitizedCredentials,
                   authResult, error, unit>>
    /\ UNCHANGED shared

\* lines 42-47: the catch block
CatchError ==
    /\ pc = "caught"
    /\ calls' = calls \o <<"console.error", "createServerErrorResponse">>
    /\ response' = createServerErrorResponse
    /\ pc' = "responded"
    /\ UNCHANGED <<request, body, validationErrors, sanitizedCredentials,
                   authResult, error, unit>>
    /\ UNCHANGED shared

Next ==
    \/ Receive
    \/ ParseBody
    \/ Validate
    \/ Sanitize
    \/ CallAuthenticate
    \/ DelayElapsed
    \/ Authenticate
    \/ Respond
    \/ CatchError

Spec == Init /\ [][Next]_vars

\* Once POST is invoked the event loop runs every continuation that is ready:
\* request.json() settles, the 10 ms timer fires, each synchronous stretch
\* runs to its end.  Nothing obliges a request to arrive.
Fairness ==
    /\ WF_vars(ParseBody)
    /\ WF_vars(Validate)
    /\ WF_vars(Sanitize)
    /\ WF_vars(CallAuthenticate)
    /\ WF_vars(DelayElapsed)
    /\ WF_vars(Authenticate)
    /\ WF_vars(Respond)
    /\ WF_vars(CatchError)

SpecLive == Spec /\ Fairness

(***************************************************************************)
(* The handler before the refactoring (REFACTORING_NOTES.md, lines 11-37): *)
(* what it passes to NextResponse.json for a request, or that it throws    *)
(* (it has no try/catch: request.json() may reject and destructuring null  *)
(* throws a TypeError).                                                    *)
(***************************************************************************)
originalPOST(req) ==
    IF ~req.ok \/ req.body.val.k \in {"null", "undefined"}
    THEN [threw |-> TRUE, response |-> NoResponse]
    ELSE LET email == req.body.email
             password == req.body.password
         IN  [threw |-> FALSE,
              response |->
                IF ~Truthy(email) \/ ~Truthy(password)
                THEN NextResponse_json(
                        [message |-> "Email and password are required."], 400)
                ELSE IF HasLength(password) /\ LengthOf(password) < 6
                THEN NextResponse_json(
                        [message |-> "Password must be at least 6 characters."], 400)
                ELSE IF StrictEqualsString(email, VALID_CREDENTIALS.email)
                        /\ StrictEqualsString(password, VALID_CREDENTIALS.password)
                THEN NextResponse_json([message |-> "Login successful!"], 200)
                ELSE NextResponse_json([message |-> "Invalid credentials."], 401)]

(***************************************************************************)
(* Direct calls of AuthValidation.sanitizeCredentials, outside POST: on a  *)
(* well-formed input (an object whose email and password are strings or    *)
(* absent), and then on the record the first call returned.                *)
(***************************************************************************)
RawEmails == {JStr(s) : s \in Strings(RawAlphabet, MaxRawLen)} \cup {JUndef}

RawPasswords ==
    {JUndef, JStr(<<>>), JStr(VALID_CREDENTIALS.password),
     JStr(<<" ","P","w"," ","1","\t">>)}

WellFormedInputs == {ObjectBody(e, p) : e \in RawEmails, p \in RawPasswords}

\* sanitizeCredentials(c)
CallSanitize ==
    /\ unit.step = "none"
    /\ \E c \in WellFormedInputs :
          unit' = [step |-> "once", arg |-> c, once |-> sanitizeCredentials(c),
                   twice |-> SanitizeThrown]
    /\ UNCHANGED <<pc, request, body, validationErrors, sanitizedCredentials,
                   authResult, response, error, calls>>
    /\ UNCHANGED shared

\* sanitizeCredentials(sanitizeCredentials(c))
CallSanitizeAgain ==
    /\ unit.step = "once"
    /\ ~unit.once.threw
    /\ unit' = [unit EXCEPT
                  !.step = "twice",
                  !.twice = sanitizeCredentials(
                               ObjectBody(unit.once.value.email,
                                          unit.once.value.password))]
    /\ UNCHANGED <<pc, request, body, validationErrors, sanitizedCredentials,
                   authResult, response, error, calls>>
    /\ UNCHANGED shared

NextUnit ==
    \/ CallSanitize
    \/ CallSanitizeAgain

SpecUnit == Init /\ [][NextUnit]_vars

(***************************************************************************)
(* Concurrent invocations of POST on the one event loop.  An invocation    *)
(* runs without interruption from one await to the next: it suspends at    *)
(* await request.json() (line 13) and at the delay inside authenticateUser *)
(* (authService.ts line 61), and other invocations run in between.  All    *)
(* invocations share the static VALID_CREDENTIALS object and the labels of *)
(* console.time; everything else is local to the invocation.               *)
(***************************************************************************)
WrongEmailBody ==
    ObjectBody(JStr(<<"W","R","O","N","G","@","E">>
                        \o SubSeq(VALID_CREDENTIALS.email, 7, 16)),
               JStr(VALID_CREDENTIALS.password))

WrongPasswordBody ==
    ObjectBody(JStr(VALID_CREDENTIALS.email),
               JStr(<<"P">> \o Tail(VALID_CREDENTIALS.password)))

ConcurrentBodies ==
    { ObjectBody(JStr(VALID_CREDENTIALS.email), JStr(VALID_CREDENTIALS.password)),
      WrongEmailBody,
      WrongPasswordBody,
      ObjectBody(WrongEmailBody.email, WrongPasswordBody.password),
      ObjectBody(JStr(VALID_CREDENTIALS.email), JStr(<<"1","2","3">>)),
      ObjectBody(JArr(<<VALID_CREDENTIALS.email>>), JStr(VALID_CREDENTIALS.password)) }

ConcurrentRequests == {Parses(b) : b \in ConcurrentBodies} \cup {Malformed}

\* lines 6-13: POST(request) is invoked (again, once it has answered) and
\* suspends on request.json()
StartPOST(i) ==
    /\ invocations[i].pc \in {"idle", "responded"}
    /\ \E r \in ConcurrentRequests :
          invocations' = [invocations EXCEPT
                            ![i] = [NoInvocation EXCEPT !.pc = "parsing",
                                                        !.request = r]]
    /\ timers' = timers \cup {"login-request", "parse-request"}
    /\ UNCHANGED <<reference, single>>

\* lines 13-32 and 42-47: request.json() settles and the invocation runs on
\* to its answer (400, or 500 from the catch block) or to the delay
JsonSettled(i) ==
    LET self == invocations[i]
        v == validateLoginCredentials(self.request.body)
        s == sanitizeCredentials(self.request.body)
    IN  /\ self.pc = "parsing"
        /\ IF ~self.request.ok
           THEN /\ invocations' = [invocations EXCEPT
                       ![i].error = "SyntaxError",
                       ![i].response = createServerErrorResponse,
                       ![i].pc = "responded"]
                /\ timers' = timers \ {"login-request"}
           ELSE IF v.threw
           THEN /\ invocations' = [invocations EXCEPT
                       ![i].error = "TypeError",
                       ![i].response = createServerErrorResponse,
                       ![i].pc = "responded"]
                /\ timers' = ((timers \ {"parse-request"})
                                 \cup {"validate-credentials"}) \ {"login-request"}
           ELSE IF Len(v.errors) > 0
           THEN /\ invocations' = [invocations EXCEPT
                       ![i].validationErrors = v.errors,
                       ![i].response = createValidationErrorResponse(v.errors),
                       ![i].pc = "responded"]
                /\ timers' = timers \ {"parse-request", "validate-credentials",
                                       "login-request"}
           ELSE IF s.threw
           THEN /\ invocations' = [invocations EXCEPT
                       ![i].error = "TypeError",
                       ![i].response = createServerErrorResponse,
                       ![i].pc = "responded"]
                /\ timers' = ((timers \ {"parse-request"})
                                 \cup {"validate-credentials"}) \ {"login-request"}
           ELSE /\ invocations' = [invocations EXCEPT
                       ![i].sanitizedCredentials = s.value,
                       ![i].pc = "delay"]
                /\ timers' = (timers \ {"parse-request", "validate-credentials"})
                                 \cup {"authenticate-user"}
        /\ UNCHANGED <<reference, single>>

\* authService.ts line 89: the timer of this invocation fires
TimerFired(i) ==
    /\ invocations[i].pc = "delay"
    /\ invocations' = [invocations EXCEPT ![i].pc = "compare"]
    /\ UNCHANGED <<reference, timers, single>>

\* The comparison reading whatever credentials some invocation has sanitized
\* (a variable of the module in place of the local).
ResolveWithSharedCredentials(i) ==
    /\ invocations[i].pc = "compare"
    /\ \E j \in Invocations :
          /\ invocations[j].sanitizedCredentials # NoCredentials
          /\ invocations' = [invocations EXCEPT
                ![i].authResult =
                    compareWith(invocations[j].sanitizedCredentials, reference),
                ![i].pc = "authenticated"]
    /\ UNCHANGED <<reference, timers, single>>

\* authService.ts lines 63-84: authenticateUser resumes, compares and resolves
Resolve(i) ==
    /\ invocations[i].pc = "compare"
    /\ invocations' = [invocations EXCEPT
          ![i].authResult = compareWith(invocations[i].sanitizedCredentials,
                                        reference),
          ![i].pc = "authenticated"]
    /\ UNCHANGED <<reference, timers, single>>

\* lines 33-40: POST resumes with the AuthResult and answers
Answer(i) ==
    /\ invocations[i].pc = "authenticated"
    /\ invocations' = [invocations EXCEPT
          ![i].response = createAuthResponse(invocations[i].authResult),
          ![i].pc = "responded"]
    /\ timers' = timers \ {"authenticate-user", "login-request"}
    /\ UNCHANGED <<reference, single>>

NextConcurrent ==
    \E i \in Invocations :
        \/ StartPOST(i)
        \/ JsonSettled(i)
        \/ TimerFired(i)
        \/ Resolve(i)
        \/ Answer(i)

SpecConcurrent == Init /\ [][NextConcurrent]_vars

(***************************************************************************)
(* Vocabulary of the properties.                                           *)
(***************************************************************************)
Called(f) == \E i \in DOMAIN calls : calls[i] = f

\* validateLoginCredentials has returned its list (it did not throw)
ValidationReturned ==
    /\ Called("validateLoginCredentials")
    /\ error = "none" \/ Called("sanitizeCredentials")

Responded == pc = "responded"

FieldErrors(errors, f) == SelectSeq(errors, LAMBDA e : e.field = f)

HasFieldError(errors, f) == \E i \in DOMAIN errors : errors[i].field = f

PassesValidation(b) == validateLoginCredentials(b) = Returned(<<>>)

ReferencePair ==
    Credentials(JStr(VALID_CREDENTIALS.email), JStr(VALID_CREDENTIALS.password))

(***************************************************************************)
(* C1.  POST answers 200 with success true, "Login successful!" and a      *)
(* data.user record exactly when the parsed body passes validation, its    *)
(* email is a string that equals the fixed email after trimming and        *)
(* lowercasing, and its password is exactly the fixed password; every      *)
(* other request is answered with another status.                          *)
(***************************************************************************)
LoginSucceeded ==
    /\ response.status = 200
    /\ response.body.success = TRUE
    /\ response.body.message = "Login successful!"
    /\ "data" \in DOMAIN response.body
    /\ "user" \in DOMAIN response.body.data

IsFixedAccount(b) ==
    /\ PassesValidation(b)
    /\ b.email.k = "string"
    /\ toLowerCase(trim(b.email.str)) = VALID_CREDENTIALS.email
    /\ b.password.k = "string"
    /\ b.password.str = VALID_CREDENTIALS.password

C4_ExceptionIs500 ==
    error # "none" =>
        /\ pc \in {"caught", "responded"}
        /\ Responded =>
              response = [status |-> 500,
                          body |-> [success |-> FALSE,
                                    message |-> "Internal server error"]]

\* the TypeError of sanitizeCredentials has been answered 500
C4_Witness ==
    /\ Responded
    /\ error = "TypeError"
    /\ Called("sanitizeCredentials")
    /\ response.status = 500

\* so has the SyntaxError of request.json()
C4_WitnessParse == Responded /\ error = "SyntaxError" /\ response.status = 500

\* and the TypeError of validateLoginCredentials
C4_WitnessValidate ==
    /\ Responded
    /\ error = "TypeError"
    /\ ~Called("sanitizeCredentials")
    /\ response.status = 500

(***************************************************************************)
(* C5.  For a parsed body that is not a JSON object (null, a boolean, a    *)
(* number, a string or an array) validateLoginCredentials returns exactly  *)
(* one error, with field "general", and POST answers 400 with that error.  *)
(***************************************************************************)
GeneralErrorOnly == <<ValidationError("general", "Invalid request body.")>>

C5_NonObjectBodyIsGeneralError ==
    (Called("validateLoginCredentials") /\ body.val.k # "object")
    => /\ validationErrors = GeneralErrorOnly
       /\ ~HasFieldError(validationErrors, "email")
       /\ ~HasFieldError(validationErrors, "password")
       /\ Responded
       /\ response = createValidationErrorResponse(GeneralErrorOnly)

\* the same for the non-object bodies other than arrays, which the code
\* does answer that way
C5_NonArrayHolds ==
    (Called("validateLoginCredentials") /\ body.val.k \notin {"object", "array"})
    => /\ validationErrors = GeneralErrorOnly
       /\ Responded
       /\ response.status = 400
       /\ response.body.errors = GeneralErrorOnly
(***************************************************************************)
(* C6.  For an object input the email rule and the password rule are       *)
(* checked independently: the list validateLoginCredentials returns holds  *)
(* at most one error per field and nothing else, the email error comes     *)
(* first, the password errors are the same whatever the email is and the   *)
(* email errors the same whatever the password is, and {} yields           *)
(* "Email is required." followed by "Password is required.".               *)
(***************************************************************************)
ProbeEmails ==
    {JUndef, JStr(VALID_CREDENTIALS.email), JStr(<<"a","b">>), JNum(5)}

ProbePasswords ==
    {JUndef, JStr(VALID_CREDENTIALS.password), JStr(<<"1","2","3">>), JBool(TRUE)}

C6_RulesIndependent ==
    (ValidationReturned /\ body.val.k = "object")
    => /\ Len(FieldErrors(validationErrors, "email")) <= 1
       /\ Len(FieldErrors(validationErrors, "password")) <= 1
       /\ \A i \in DOMAIN validationErrors :
             validationErrors[i].field \in {"email", "password"}
       /\ \A i, j \in DOMAIN validationErrors :
             (validationErrors[i].field = "email"
                 /\ validationErrors[j].field = "password") => i < j
       /\ \A e \in ProbeEmails :
             FieldErrors(validateLoginCredentials(ObjectBody(e, body.password)).errors,
                         "password")
                 = FieldErrors(validationErrors, "password")
       /\ \A p \in ProbePasswords :
             FieldErrors(validateLoginCredentials(ObjectBody(body.email, p)).errors,
                         "email")
                 = FieldErrors(validationErrors, "email")
       /\ body = ObjectBody(JUndef, JUndef) =>
             validationErrors = <<ValidationError("email", "Email is required."),
                                  ValidationError("password", "Password is required.")>>

\* an ill-formed email and a short password have been reported together
C6_Witness ==
    /\ Responded
    /\ body.val.k = "object"
    /\ Len(validationErrors) = 2
    /\ validationErrors[1] = ValidationError("email", "Invalid email format.")
    /\ validationErrors[2].field = "password"
    /\ validationErrors[2].message # "Password is required."

\* {} has been answered with its two errors
C6_WitnessEmptyObject ==
    /\ Responded
    /\ body = ObjectBody(JUndef, JUndef)
    /\ Len(response.body.errors) = 2

(***************************************************************************)
(* C7.  A password string shorter than 6 characters, the empty one         *)
(* included, yields an error with field "password"; one of 6 characters or *)
(* more yields none.  So test@example.com with "123" is answered 400 with  *)
(* exactly one error, and with "123456" it passes validation and is        *)
(* answered 401.                                                           *)
(***************************************************************************)
C7_PasswordLengthRule ==
    /\ (ValidationReturned /\ body.val.k = "object" /\ body.password.k = "string")
       => (Len(body.password.str) < 6 <=> HasFieldError(validationErrors, "password"))
    /\ (Responded /\ request = Parses(ObjectBody(JStr(VALID_CREDENTIALS.email),
                                                  JStr(<<"1","2","3">>))))
       => /\ response.status = 400
          /\ Len(response.body.errors) = 1
          /\ response.body.errors[1].field = "password"
    /\ (Responded /\ request = Parses(ObjectBody(JStr(VALID_CREDENTIALS.email),
                                                  JStr(<<"1","2","3","4","5","6">>))))
       => /\ validationErrors = <<>>
          /\ Called("authenticateUser")
          /\ response.status = 401

\* a password of exactly 6 characters has passed validation and got 401
C7_Witness ==
    /\ Responded
    /\ body.password.k = "string"
    /\ Len(body.password.str) = 6
    /\ Called("authenticateUser")
    /\ response.status = 401

\* a password of 5 characters has been rejected
C7_WitnessShort ==
    /\ Responded
    /\ body.password.k = "string"
    /\ Len(body.password.str) = 5
    /\ HasFieldError(response.body.errors, "password")

(***************************************************************************)
(* C8.  For every input that misses email (absent, null or empty),         *)
(* whatever else it holds, validateLoginCredentials returns a list with an *)
(* error whose field is "email".                                           *)
(***************************************************************************)
MissesEmail(b) == b.email.k \in {"undefined", "null"} \/ b.email = JStr(<<>>)

C8_MissingEmailIsEmailError ==
    (ValidationReturned /\ MissesEmail(body))
    => HasFieldError(validationErrors, "email")

\* C8 as amended: the same for every input that is an object or an array;
\* any other input (null, a boolean, a number, a string) misses email too
\* and gets the general error alone, with no email error.
C8_MissingEmailOfStructureIsEmailError ==
    (ValidationReturned /\ MissesEmail(body))
    => IF body.val.k \in {"object", "array"}
       THEN /\ HasFieldError(validationErrors, "email")
            /\ validationErrors[1] = ValidationError("email", "Email is required.")
       ELSE /\ validationErrors = GeneralErrorOnly
            /\ ~HasFieldError(validationErrors, "email")

\* an object with a null email and a valid password has been answered with
\* the email error
C8_Witness ==
    /\ Responded
    /\ body.val.k = "object"
    /\ body.email = JNull
    /\ body.password = JStr(VALID_CREDENTIALS.password)
    /\ response.body.errors = <<ValidationError("email", "Email is required.")>>

(***************************************************************************)
(* C9.  A non-empty email string gets no email error exactly when it has   *)
(* no white space, exactly one "@" with a character before it, and after   *)
(* the "@" a "." with a character before and a character after it;         *)
(* otherwise it gets "Invalid email format.".  Consecutive dots in the     *)
(* domain, as in a@b..c, are accepted.                                     *)
(***************************************************************************)
Positions(s, c) == {i \in 1..Len(s) : s[i] = c}

LocalAtDomainDotTld(s) ==
    /\ \A i \in 1..Len(s) : s[i] \notin WhiteSpace
    /\ Cardinality(Positions(s, "@")) = 1
    /\ \A at \in Positions(s, "@") :
          /\ at > 1
          /\ \E dot \in Positions(s, ".") : at + 1 < dot /\ dot < Len(s)

C9_EmailPattern ==
    (ValidationReturned /\ body.val.k = "object" /\ body.email.k = "string"
        /\ Len(body.email.str) > 0)
    => IF LocalAtDomainDotTld(body.email.str)
       THEN ~HasFieldError(validationErrors, "email")
       ELSE FieldErrors(validationErrors, "email")
                = <<ValidationError("email", "Invalid email format.")>>

\* a@b..c has passed the email rule
C9_Witness ==
    /\ ValidationReturned
    /\ body.email = JStr(<<"a","@","b",".",".","c">>)
    /\ ~HasFieldError(validationErrors, "email")

\* an email with two "@" has been rejected
C9_WitnessRejected ==
    /\ Responded
    /\ body.email = JStr(<<"a","@","b","@","c",".","d">>)
    /\ HasFieldError(response.body.errors, "email")
(***************************************************************************)
(* C10.  sanitizeCredentials is idempotent on well-formed inputs:          *)
(* sanitizing the sanitized record returns it unchanged, in the email and  *)
(* in the password.                                                        *)
(***************************************************************************)
C10_SanitizeIdempotent ==
    /\ unit.step # "none" => ~unit.once.threw
    /\ unit.step = "twice" =>
          /\ ~unit.twice.threw
          /\ unit.twice.value.email = unit.once.value.email
          /\ unit.twice.value.password = unit.once.value.password

\* an email that the first call both trimmed and lowercased has been
\* sanitized twice
C10_Witness ==
    /\ unit.step = "twice"
    /\ unit.arg.email.k = "string"
    /\ Len(unit.once.value.email.str) > 0
    /\ Len(unit.once.value.email.str) < Len(unit.arg.email.str)
    /\ unit.once.value.email.str # trim(unit.arg.email.str)
    /\ unit.twice = unit.once

(***************************************************************************)
(* C11.  For an object input whose fields are strings or absent, the       *)
(* record sanitizeCredentials returns has an email string without leading  *)
(* or trailing white space and without upper-case letters, the input's     *)
(* password unchanged, and the empty string for each absent field; the     *)
(* call does not throw.                                                    *)
(***************************************************************************)
SurroundedByWhiteSpace(s) ==
    Len(s) > 0 /\ (s[1] \in WhiteSpace \/ s[Len(s)] \in WhiteSpace)

C11_SanitizedShape ==
    unit.step # "none" =>
        /\ ~unit.once.threw
        /\ unit.once.value.email.k = "string"
        /\ ~SurroundedByWhiteSpace(unit.once.value.email.str)
        /\ \A i \in DOMAIN unit.once.value.email.str :
              ~IsUpper(unit.once.value.email.str[i])
        /\ unit.arg.email.k = "undefined" => unit.once.value.email = JStr(<<>>)
        /\ unit.once.value.password =
              (IF unit.arg.password.k = "undefined" THEN JStr(<<>>)
                                                    ELSE unit.arg.password)

\* an email with upper case and white space around it and a password with
\* both have been sanitized
C11_Witness ==
    /\ unit.step = "once"
    /\ unit.arg.email.k = "string"
    /\ SurroundedByWhiteSpace(unit.arg.email.str)
    /\ \E i \in DOMAIN unit.arg.email.str : IsUpper(unit.arg.email.str[i])
    /\ SurroundedByWhiteSpace(unit.arg.password.str)
    /\ unit.once.value.password = unit.arg.password
    /\ Len(unit.once.value.email.str) > 0

\* an input without email and password has been sanitized to two empty strings
C11_WitnessAbsent ==
    /\ unit.step = "once"
    /\ unit.arg = ObjectBody(JUndef, JUndef)
    /\ unit.once.value = Credentials(JStr(<<>>), JStr(<<>>))

(***************************************************************************)
(* C12.  The refactored POST is backward compatible with the original      *)
(* handler: for every request body it passes to NextResponse.json the      *)
(* status and the body the original passed (400 with {message: "Email and  *)
(* password are required."}, 400 with {message: "Password must be at       *)
(* least 6 characters."}, {message: "Login successful!"}, or 401 with      *)
(* {message: "Invalid credentials."}).                                     *)
(***************************************************************************)
C12_SameResponseAsOriginal ==
    (Responded /\ request.ok /\ ~originalPOST(request).threw)
    => response = originalPOST(request).response

\* the weaker statement that the status alone is the original's; it fails
\* too (a mixed-case fixed email: 401 before, 200 now; an ill-formed email
\* with a password of 6 characters: 401 before, 400 now)
C12_SameStatusAsOriginal ==
    (Responded /\ request.ok /\ ~originalPOST(request).threw)
    => response.status = originalPOST(request).response.status

\* what is kept: on the bodies of the tests (string fields, lower-case
\* well-formed email or none) the status and the message for 200 and 401
LowerCaseWellFormed(v) ==
    \/ ~Truthy(v)
    \/ v.k = "string" /\ EMAIL_REGEX_test(v.str) /\ toLowerCase(v.str) = v.str

C12_StatusKeptOnPlainBodies ==
    (Responded /\ request.ok /\ body.val.k = "object"
        /\ LowerCaseWellFormed(body.email)
        /\ body.password.k \in {"string", "undefined"})
    => /\ response.status = originalPOST(request).response.status
       /\ response.status # 400 =>
             response.body.message = originalPOST(request).response.body.message

(***************************************************************************)
(* C14.  Every call of authenticateUser first suspends on the simulated    *)
(* lookup delay and compares the credentials only after the delay has      *)
(* elapsed; the delay is unconditional and the same step on the success    *)
(* path and on the failure path, so no outcome exists without it.          *)
(***************************************************************************)
IndexOf(f) == CHOOSE i \in DOMAIN calls : calls[i] = f

\* the steps of a request whose credentials have been compared
AuthenticatedPath ==
    <<"POST", "request.json", "validateLoginCredentials", "sanitizeCredentials",
      "authenticateUser", "simulateDatabaseDelay", "setTimeout.resolve">>

C14_DelayPrecedesOutcome ==
    /\ Called("authenticateUser") =>
          /\ IndexOf("authenticateUser") < Len(calls)
          /\ calls[IndexOf("authenticateUser") + 1] = "simulateDatabaseDelay"
    /\ (pc = "compare" \/ authResult # NoAuthResult) =>
          /\ Called("simulateDatabaseDelay")
          /\ Called("setTimeout.resolve")
          /\ IndexOf("authenticateUser") < IndexOf("simulateDatabaseDelay")
          /\ IndexOf("simulateDatabaseDelay") < IndexOf("setTimeout.resolve")
    /\ pc = "delay" => authResult = NoAuthResult
    /\ pc = "authenticated" => calls = AuthenticatedPath

C14_Witness ==
    /\ pc = "authenticated"
    /\ authResult.success
    /\ calls = AuthenticatedPath

C14_WitnessFailure ==
    /\ pc = "authenticated"
    /\ ~authResult.success
    /\ calls = AuthenticatedPath

C14_WitnessSuspended ==
    /\ pc = "delay"
    /\ authResult = NoAuthResult
    /\ sanitizedCredentials = ReferencePair

(***************************************************************************)
(* C17.  Validation is sound for every JSON value a body field can hold:   *)
(* whenever validateLoginCredentials returns an empty list, email is a     *)
(* string matching the pattern and password is a string of at least 6      *)
(* code units, so authenticateUser always receives two strings; and a      *)
(* password that is present but is not a string of length at least 6       *)
(* always gets a password error.                                           *)
(***************************************************************************)
IsEmailString(v) == v.k = "string" /\ EMAIL_REGEX_test(v.str)

IsLongString(v) == v.k = "string" /\ Len(v.str) >= MIN_PASSWORD_LENGTH

\* validateLoginCredentials returned []: POST went on to sanitizeCredentials
ValidationPassed == Called("sanitizeCredentials")

C17_ValidationSound ==
    /\ ValidationPassed => IsEmailString(body.email) /\ IsLongString(body.password)
    /\ Called("authenticateUser") =>
          /\ sanitizedCredentials.email.k = "string"
          /\ sanitizedCredentials.password.k = "string"
    /\ (ValidationReturned /\ body.val.k \in {"object", "array"}
          /\ body.password.k # "undefined" /\ ~IsLongString(body.password))
       => HasFieldError(validationErrors, "password")

\* what holds: the same statement for bodies whose fields are strings or absent
C17_SoundForStringFields ==
    (body.val.k = "object" /\ body.email.k \in {"string", "undefined"}
        /\ body.password.k \in {"string", "undefined"})
    => C17_ValidationSound

\* the failing case: the number 123456 as password passes validation and is
\* handed to authenticateUser, which answers 401
C17_NumberPasswordAuthenticated ==
    /\ Responded
    /\ body = ObjectBody(JStr(VALID_CREDENTIALS.email), JNum(123456))
    /\ validationErrors = <<>>
    /\ Called("authenticateUser")
    /\ sanitizedCredentials.password = JNum(123456)
    /\ response.status = 401

(***************************************************************************)
(* C18.  For every body that request.json() parses, whatever JSON value it *)
(* is and whatever its email and password fields hold, no later step       *)
(* throws: sanitizeCredentials never throws on a body that passed          *)
(* validation, and POST answers 400, 401 or 200, never 500.                *)
(***************************************************************************)
C18_NoThrowAfterParse ==
    request.ok =>
        /\ error = "none"
        /\ PassesValidation(request.body) => ~sanitizeCredentials(request.body).threw
        /\ Responded => response.status \in {200, 400, 401}

\* the failing cases: an email array that reads as an address passes
\* validation and sanitizeCredentials throws on its missing trim;
C18_SanitizeThrows ==
    /\ Responded
    /\ body = ObjectBody(JArr(<<VALID_CREDENTIALS.email>>),
                         JStr(VALID_CREDENTIALS.password))
    /\ validationErrors = <<>>
    /\ Called("sanitizeCredentials")
    /\ ~Called("authenticateUser")
    /\ error = "TypeError"
    /\ response.status = 500

\* an email object that cannot be converted to a string makes
\* validateLoginCredentials itself throw
C18_ValidateThrows ==
    /\ Responded
    /\ body.email = JObj(TRUE)
    /\ ~Called("sanitizeCredentials")
    /\ error = "TypeError"
    /\ response.status = 500

\* what holds: no 500 after a successful parse when the email is a string
\* or is missing
C18_NoThrowForStringEmail ==
    (request.ok /\ request.body.email.k \in {"string", "undefined", "null"})
    => C18_NoThrowAfterParse

(***************************************************************************)
(* C19.  In POST validation runs on the raw email, before sanitization:    *)
(* an email string with leading or trailing white space is answered 400    *)
(* with "Invalid email format." and never reaches authentication, even     *)
(* when its trimmed value is the fixed email and the password is correct;  *)
(* so on every path that reaches authenticateUser the trim of              *)
(* sanitizeCredentials changes nothing and only lowercasing can alter the  *)
(* email.                                                                  *)
(***************************************************************************)
HasError(errors, f, m) ==
    \E i \in DOMAIN errors : errors[i] = ValidationError(f, m)

PaddedEmail(b) ==
    b.val.k = "object" /\ b.email.k = "string" /\ SurroundedByWhiteSpace(b.email.str)

C19_PaddedEmailRejected ==
    /\ (ValidationReturned /\ PaddedEmail(body)) =>
          /\ Responded
          /\ response.status = 400
          /\ HasError(validationErrors, "email", "Invalid email format.")
          /\ response.body.errors = validationErrors
          /\ ~Called("sanitizeCredentials")
          /\ ~Called("authenticateUser")
    /\ Called("authenticateUser") =>
          /\ body.email.k = "string"
          /\ trim(body.email.str) = body.email.str
          /\ sanitizedCredentials.email = JStr(toLowerCase(body.email.str))

C19_Witness ==
    /\ Responded
    /\ body.email.k = "string"
    /\ body.email.str # VALID_CREDENTIALS.email
    /\ trim(body.email.str) = VALID_CREDENTIALS.email
    /\ body.password = JStr(VALID_CREDENTIALS.password)
    /\ response.status = 400

C19_WitnessLowercased ==
    /\ Called("authenticateUser")
    /\ sanitizedCredentials.email # body.email
    /\ sanitizedCredentials.email = JStr(VALID_CREDENTIALS.email)

(***************************************************************************)
(* C20.  Every response of POST is a consistent envelope: success is true  *)
(* exactly when the status is 200; errors is present exactly when the      *)
(* status is 400 and is then a non-empty list; data is present exactly     *)
(* when the status is 200; message is always a non-empty string.           *)
(***************************************************************************)
HasField(obj, f) == f \in DOMAIN obj

C20_WitnessStatuses ==
    /\ Responded
    /\ response.status \in {400, 401, 500}
    /\ ~HasField(response.body, "data")

(***************************************************************************)
(* C13.  The answer to a failed authentication does not reveal which field *)
(* was wrong: any two validated bodies that both fail authentication (a    *)
(* wrong email with the correct password, the correct email with a wrong   *)
(* password, or both wrong) get the identical status 401 and the identical *)
(* response body.                                                          *)
(***************************************************************************)
RespondedAt(i) == invocations[i].pc = "responded"

FailedAuthentication(i) ==
    /\ RespondedAt(i)
    /\ invocations[i].authResult # NoAuthResult
    /\ ~invocations[i].authResult.success

C13_FailuresIndistinguishable ==
    \A i, j \in Invocations :
        (FailedAuthentication(i) /\ FailedAuthentication(j)) =>
            /\ invocations[i].response.status = 401
            /\ invocations[i].response = invocations[j].response

C13_Witness ==
    \E i, j \in Invocations :
        /\ FailedAuthentication(i) /\ FailedAuthentication(j)
        /\ invocations[i].request = Parses(WrongEmailBody)
        /\ invocations[j].request = Parses(WrongPasswordBody)

C13_WitnessBothWrong ==
    \E i, j \in Invocations :
        /\ FailedAuthentication(i) /\ FailedAuthentication(j)
        /\ invocations[i].request =
              Parses(ObjectBody(WrongEmailBody.email, WrongPasswordBody.password))
        /\ invocations[j].request = Parses(WrongPasswordBody)

(***************************************************************************)
(* C16.  Requests are independent and authentication is deterministic:     *)
(* under any interleaving of concurrent invocations at their await points  *)
(* and after any earlier requests, the response to a request is a function *)
(* of its own body only; the fixed reference credentials are never         *)
(* modified; authenticating the same sanitized credentials twice gives the *)
(* same outcome.                                                           *)
(***************************************************************************)
C16_RequestsIndependent ==
    /\ reference = VALID_CREDENTIALS
    /\ \A i, j \in Invocations :
          /\ (RespondedAt(i) /\ RespondedAt(j)
                 /\ invocations[i].request = invocations[j].request)
             => invocations[i].response = invocations[j].response
          /\ (invocations[i].authResult # NoAuthResult
                 /\ invocations[j].authResult # NoAuthResult
                 /\ invocations[i].sanitizedCredentials
                       = invocations[j].sanitizedCredentials)
             => invocations[i].authResult = invocations[j].authResult
    /\ \A i \in Invocations :
          invocations[i].authResult # NoAuthResult =>
              invocations[i].authResult
                  = compareCredentials(invocations[i].sanitizedCredentials)

\* two invocations answered the same request alike
C16_Witness ==
    \E i, j \in Invocations :
        /\ i # j
        /\ RespondedAt(i) /\ RespondedAt(j)
        /\ invocations[i].request = invocations[j].request
        /\ invocations[i].response.status = 200
        /\ invocations[j].response = invocations[i].response

\* an invocation answered while another, with other credentials, was
\* suspended on its delay
C16_WitnessInterleaved ==
    \E i, j \in Invocations :
        /\ RespondedAt(i)
        /\ invocations[i].response.status = 401
        /\ invocations[j].pc = "delay"
        /\ invocations[j].sanitizedCredentials = ReferencePair
        /\ "authenticate-user" \in timers

(***************************************************************************)
(* C15.  Each request moves only forward through Received, Validated-or-   *)
(* Rejected, Authenticated-or-Error, Responded: validation runs at most    *)
(* once, authentication runs at most once and only after validation        *)
(* returned no errors, nothing is retried, no earlier stage is re-entered, *)
(* and every request eventually reaches Responded with exactly one         *)
(* response (400, 401, 200 or 500).                                        *)
(***************************************************************************)
Stage(p) ==
    CASE p = "idle" -> 0
      [] p = "start" -> 1
      [] p \in {"parsed", "validated", "sanitized"} -> 2
      [] p \in {"delay", "compare", "authenticated", "caught"} -> 3
      [] p = "responded" -> 4

Position(p) ==
    CASE p = "idle" -> 0
      [] p = "start" -> 1
      [] p = "parsed" -> 2
      [] p = "validated" -> 3
      [] p = "sanitized" -> 4
      [] p = "delay" -> 5
      [] p = "compare" -> 6
      [] p = "authenticated" -> 7
      [] p = "caught" -> 8
      [] p = "responded" -> 9

Times(f) == Cardinality({i \in DOMAIN calls : calls[i] = f})

OnlyForward ==
    /\ Stage(pc') >= Stage(pc)
    /\ Position(pc') >= Position(pc)
    /\ pc' # pc => Position(pc') > Position(pc)
    /\ response # NoResponse => response' = response
    /\ pc = "responded" => pc' = "responded"

AtMostOnce ==
    /\ Times("validateLoginCredentials") <= 1
    /\ Times("sanitizeCredentials") <= 1
    /\ Times("authenticateUser") <= 1
    /\ Times("createAuthResponse") + Times("createServerErrorResponse") <= 1
    /\ Called("authenticateUser") =>
          /\ ValidationReturned
          /\ validationErrors = <<>>
    /\ response # NoResponse <=> Responded
    /\ Responded => response.status \in {200, 400, 401, 500}

C15_ForwardToOneResponse ==
    /\ [][OnlyForward]_vars
    /\ []AtMostOnce
    /\ (pc = "start") ~> Responded

C15_Witness ==
    /\ Responded
    /\ response.status = 200
    /\ Times("validateLoginCredentials") = 1
    /\ Times("authenticateUser") = 1

C15_WitnessCaught ==
    /\ Responded
    /\ response.status = 500
    /\ Times("validateLoginCredentials") = 1
    /\ Times("authenticateUser") = 0
====
